---- MODULE Spec2Model ----
(***************************************************************************)
(* Model of src/code_insight/mcp_server.py: the three HTTP routes that the *)
(* module registers (/static/{filepath:path}, / and /info) and the path    *)
(* arithmetic that serve_static performs with pathlib.                     *)
(*                                                                         *)
(* A Python str is a sequence of one-character strings.  A pathlib.Path is *)
(* the sequence of its parts below the root "/" (every path that occurs is *)
(* absolute; the "//" root that POSIX leaves implementation-defined is     *)
(* collapsed by resolve() on line 48 before the path is used and is not    *)
(* kept apart).  The file system is a function from absolute paths to      *)
(* nodes; the program only reads it.  pathlib is modelled as CPython       *)
(* 3.10-3.12 implements it.                                                *)
(***************************************************************************)
EXTENDS Integers, Sequences, FiniteSets, TLC

----------------------------------------------------------------------------
(* Characters and names *)

SEP == "/"
NUL == "\\0"
Dot == <<".">>
DotDot == <<".", ".">>
IndexHtml == <<"i", "n", "d", "e", "x", ".", "h", "t", "m", "l">>
Static == <<"s", "t", "a", "t", "i", "c">>
StaticEvil == Static \o <<"-", "e", "v", "i", "l">>
App == <<"a", "p", "p">>
Srv == <<"s", "r", "v">>
Etc == <<"e", "t", "c">>
Passwd == <<"p", "a", "s", "s", "w", "d">>
Docs == <<"d", "o", "c", "s">>
Out == <<"o", "u", "t">>
Loop == <<"l", "o", "o", "p">>

----------------------------------------------------------------------------
(* str operations used by the handler *)

EndsWithSep(s) == Len(s) > 0 /\ s[Len(s)] = SEP

StartsWith(s, prefix) ==
    /\ Len(prefix) <= Len(s)
    /\ SubSeq(s, 1, Len(prefix)) = prefix

RECURSIVE RStripSep(_)
RStripSep(s) ==
    IF EndsWithSep(s) THEN RStripSep(SubSeq(s, 1, Len(s) - 1)) ELSE s

IsAbs(s) == Len(s) > 0 /\ s[1] = SEP

RECURSIVE SplitSep(_)
SplitSep(s) ==
    IF \A i \in 1..Len(s) : s[i] # SEP
    THEN <<s>>
    ELSE LET i == CHOOSE k \in 1..Len(s) :
                      /\ s[k] = SEP
                      /\ \A j \in 1..(k - 1) : s[j] # SEP
         IN <<SubSeq(s, 1, i - 1)>> \o SplitSep(SubSeq(s, i + 1, Len(s)))

RECURSIVE Flatten(_)
Flatten(ss) == IF ss = <<>> THEN <<>> ELSE Head(ss) \o Flatten(Tail(ss))

----------------------------------------------------------------------------
(* pathlib.PurePosixPath *)

IsRealPart(x) == x # <<>> /\ x # Dot

ParseParts(s) == SelectSeq(SplitSep(s), IsRealPart)

TrueDiv(self, key) ==
    IF IsAbs(key) THEN ParseParts(key) ELSE self \o ParseParts(key)

RECURSIVE PathStr(_)
PathStr(path) ==
    IF path = <<>> THEN <<SEP>>
    ELSE IF Len(path) = 1 THEN <<SEP>> \o path[1]
    ELSE PathStr(SubSeq(path, 1, Len(path) - 1)) \o <<SEP>> \o path[Len(path)]

Parent(path) == IF path = <<>> THEN <<>> ELSE SubSeq(path, 1, Len(path) - 1)

----------------------------------------------------------------------------
(* The file system the process reads *)

Dir == [kind |-> "dir", target |-> <<>>, search |-> TRUE]
LockedDir == [kind |-> "dir", target |-> <<>>, search |-> FALSE]
File == [kind |-> "file", target |-> <<>>, search |-> FALSE]
Link(t) == [kind |-> "link", target |-> t, search |-> FALSE]

\* The symlinks one path walk may follow before it fails with ELOOP.  The
\* kernel allows 40; a walk over the layouts below that follows more than a
\* handful of links is caught in a cycle, so a smaller limit gives the same
\* results and keeps the recursion shallow.
MaxSymlinks == 12

\* The kernel's path walk behind os.stat / os.lstat: cur is the directory
\* reached so far (no symlink in it), rest the segments still to walk, fuel
\* the symlinks that may still be followed, follow whether a symlink in the
\* last position is followed (stat) or reported (lstat).  The result is an
\* errno, or "OK" with the node's kind.
RECURSIVE Walk(_, _, _, _, _)
Walk(F, cur, rest, fuel, follow) ==
    IF cur \notin DOMAIN F THEN [errno |-> "ENOENT", kind |-> ""]
    ELSE IF rest = <<>> THEN [errno |-> "OK", kind |-> F[cur].kind]
    ELSE IF F[cur].kind # "dir" THEN [errno |-> "ENOTDIR", kind |-> ""]
    ELSE IF ~F[cur].search THEN [errno |-> "EACCES", kind |-> ""]
    ELSE LET name == Head(rest)
             tl == Tail(rest)
             child == Append(cur, name)
         IN IF name = <<>> \/ name = <<".">> THEN Walk(F, cur, tl, fuel, follow)
            ELSE IF name = <<".", ".">>
            THEN Walk(F, IF cur = <<>> THEN <<>> ELSE SubSeq(cur, 1, Len(cur) - 1),
                      tl, fuel, follow)
            ELSE IF child \notin DOMAIN F THEN [errno |-> "ENOENT", kind |-> ""]
            ELSE IF F[child].kind # "link" \/ (tl = <<>> /\ ~follow)
            THEN Walk(F, child, tl, fuel, follow)
            ELSE IF fuel = 0 THEN [errno |-> "ELOOP", kind |-> ""]
            ELSE Walk(F, IF IsAbs(F[child].target) THEN <<>> ELSE cur,
                      SplitSep(F[child].target) \o tl, fuel - 1, follow)

HasNul(name) == \E i \in 1..Len(name) : name[i] = NUL

PathHasNul(path) == \E i \in 1..Len(path) : HasNul(path[i])

\* os.stat(path) and os.lstat(path); an embedded null byte is a ValueError
\* raised before the system call.
Stat(F, path) ==
    IF PathHasNul(path) THEN [errno |-> "ValueError", kind |-> ""]
    ELSE Walk(F, <<>>, path, MaxSymlinks, TRUE)

Lstat(F, path) ==
    IF PathHasNul(path) THEN [errno |-> "ValueError", kind |-> ""]
    ELSE Walk(F, <<>>, path, MaxSymlinks, FALSE)

\* posixpath._joinrealpath: os.lstat succeeded and S_ISLNK holds; every
\* OSError of lstat means "not a link" when strict is False.
IsLink(F, path) == Lstat(F, path) = [errno |-> "OK", kind |-> "link"]

\* posixpath._joinrealpath(path, rest, strict=False, seen).  path is the part
\* resolved so far, rest the segments still to walk, seen the links whose
\* resolution is in progress.  st is "ok", "loop" (the second element False
\* of the returned pair, path then being join(newpath, rest)) or
\* "ValueError" (lstat on an embedded null byte).
RECURSIVE JoinRealpath(_, _, _, _)
JoinRealpath(F, path, rest, seen) ==
    IF rest = <<>> THEN [path |-> path, st |-> "ok"]
    ELSE LET name == Head(rest)
             tl == Tail(rest)
             newpath == Append(path, name)
         IN IF ~IsRealPart(name) THEN JoinRealpath(F, path, tl, seen)
            ELSE IF name = DotDot THEN JoinRealpath(F, Parent(path), tl, seen)
            ELSE IF HasNul(name) THEN [path |-> newpath \o tl, st |-> "ValueError"]
            ELSE IF ~IsLink(F, newpath) THEN JoinRealpath(F, newpath, tl, seen)
            ELSE IF newpath \in seen THEN [path |-> newpath \o tl, st |-> "loop"]
            ELSE LET target == F[newpath].target
                     r == JoinRealpath(F, IF IsAbs(target) THEN <<>> ELSE path,
                                       SplitSep(target), seen \cup {newpath})
                 IN IF r.st # "ok" THEN [path |-> r.path \o tl, st |-> r.st]
                    ELSE JoinRealpath(F, r.path, tl, seen)

\* posixpath.normpath of an absolute path: "", "." and ".." are folded
\* without looking at the file system.
RECURSIVE NormPath(_, _)
NormPath(done, rest) ==
    IF rest = <<>> THEN done
    ELSE IF ~IsRealPart(Head(rest)) THEN NormPath(done, Tail(rest))
    ELSE IF Head(rest) = DotDot THEN NormPath(Parent(done), Tail(rest))
    ELSE NormPath(Append(done, Head(rest)), Tail(rest))

\* pathlib.Path.resolve(strict=False): os.path.realpath, which on a symlink
\* loop gives up and returns the normalized, unresolved path, then a stat()
\* of the result that turns ELOOP into RuntimeError and ignores every other
\* OSError.  exc is "none", "RuntimeError" or "ValueError".
Resolve(F, path) ==
    LET r == JoinRealpath(F, <<>>, path, {})
        p == NormPath(<<>>, r.path)
    IN IF r.st = "ValueError" THEN [path |-> path, exc |-> "ValueError"]
       ELSE IF r.st = "ok" THEN [path |-> p, exc |-> "none"]
       ELSE IF Stat(F, p).errno = "ValueError" THEN [path |-> path, exc |-> "ValueError"]
       ELSE IF Stat(F, p).errno = "ELOOP" THEN [path |-> path, exc |-> "RuntimeError"]
       ELSE [path |-> p, exc |-> "none"]

\* pathlib.Path.is_file(): S_ISREG of stat(); "no" when stat fails with
\* ENOENT, ENOTDIR, EBADF, ELOOP or a ValueError; any other OSError leaves
\* is_file.
IsFile(F, path) ==
    LET st == Stat(F, path)
    IN IF st.errno = "OK" THEN (IF st.kind = "file" THEN "yes" ELSE "no")
       ELSE IF st.errno \in {"ENOENT", "ENOTDIR", "ELOOP", "ValueError"} THEN "no"
       ELSE "OSError"

----------------------------------------------------------------------------
(* File-system layouts.  /app holds the module, so that line 33 yields     *)
(* /app/static; /app may itself be a symlink.                              *)

Skeleton ==
    (<<>> :> Dir) @@ (<<Etc>> :> Dir) @@ (<<Etc, Passwd>> :> File)

\* A plain tree: index.html, docs/index.html, a link that leaves the root
\* and a link to itself.
LayoutPlain ==
    Skeleton
    @@ (<<App>> :> Dir)
    @@ (<<App, Static>> :> Dir)
    @@ (<<App, Static, IndexHtml>> :> File)
    @@ (<<App, Static, Docs>> :> Dir)
    @@ (<<App, Static, Docs, IndexHtml>> :> File)
    @@ (<<App, Static, Out>> :> Link(<<SEP>> \o Etc \o <<SEP>> \o Passwd))
    @@ (<<App, Static, Loop>> :> Link(Loop))

\* A sibling of the root whose name continues the root's name; index.html
\* is a link that stays inside the root.
LayoutSibling ==
    Skeleton
    @@ (<<App>> :> Dir)
    @@ (<<App, StaticEvil>> :> Dir)
    @@ (<<App, StaticEvil, IndexHtml>> :> File)
    @@ (<<App, Static>> :> Dir)
    @@ (<<App, Static, IndexHtml>> :> Link(Docs \o <<SEP>> \o IndexHtml))
    @@ (<<App, Static, Docs>> :> Dir)
    @@ (<<App, Static, Docs, IndexHtml>> :> File)
    @@ (<<App, Static, Out>> :> Link(DotDot \o <<SEP>> \o StaticEvil \o <<SEP>> \o IndexHtml))
    @@ (<<App, Static, Loop>> :> Link(Out))

\* docs is a directory without search permission; the root has no index.html.
LayoutLocked ==
    Skeleton
    @@ (<<App>> :> Dir)
    @@ (<<App, Static>> :> Dir)
    @@ (<<App, Static, Docs>> :> LockedDir)
    @@ (<<App, Static, Docs, IndexHtml>> :> File)
    @@ (<<App, Static, Docs, Out>> :> Link(<<SEP>> \o Etc))
    @@ (<<App, Static, Out>> :> Link(Docs))
    @@ (<<App, Static, Loop>> :> Link(Out \o <<SEP>> \o Loop))

\* index.html is a link to a file outside the root; out and loop form a cycle.
LayoutLinkedIndex ==
    Skeleton
    @@ (<<App>> :> Dir)
    @@ (<<App, Static>> :> Dir)
    @@ (<<App, Static, IndexHtml>> :> Link(<<SEP>> \o Etc \o <<SEP>> \o Passwd))
    @@ (<<App, Static, Docs>> :> Link(Dot))
    @@ (<<App, Static, Out>> :> Link(Loop))
    @@ (<<App, Static, Loop>> :> Link(Out))

\* /app is a symlink, so the canonical root is /srv/static.
LayoutSymlinkedApp ==
    Skeleton
    @@ (<<App>> :> Link(Srv))
    @@ (<<Srv>> :> Dir)
    @@ (<<Srv, Static>> :> Dir)
    @@ (<<Srv, Static, IndexHtml>> :> File)
    @@ (<<Srv, Static, Docs>> :> File)
    @@ (<<Srv, Static, Out>> :> Link(DotDot))
    @@ (<<Srv, StaticEvil>> :> File)

Layouts ==
    {LayoutPlain, LayoutSibling, LayoutLocked, LayoutLinkedIndex, LayoutSymlinkedApp}

----------------------------------------------------------------------------
(* Requests *)

MaxTokens == 3
NumProcs == 2

Tokens == {<<SEP>>, DotDot, Docs, IndexHtml, StaticEvil, Out, <<NUL>>}

\* Every string made of at most MaxTokens tokens.
Requests ==
    {Flatten(ts) : ts \in UNION {[1..n -> Tokens] : n \in 0..MaxTokens}}

\* The requests that concurrent clients send.
ConcRequests == {<<>>, Out}

Queries == {"", "next=/info"}

----------------------------------------------------------------------------
(* Local values and responses *)

Unset == [set |-> FALSE, v |-> <<>>]
Val(x) == [set |-> TRUE, v |-> x]

NoResponse == [type |-> "none", status |-> 0, body |-> "", path |-> <<>>]
HTMLResponse(content, code) ==
    [type |-> "HTMLResponse", status |-> code, body |-> content, path |-> <<>>]
FileResponse(path) ==
    [type |-> "FileResponse", status |-> 200, body |-> "", path |-> path]
PlainTextResponse(content) ==
    [type |-> "PlainTextResponse", status |-> 200, body |-> content, path |-> <<>>]
RedirectResponse(url, code) ==
    [type |-> "RedirectResponse", status |-> code, body |-> url, path |-> <<>>]
\* An exception that leaves the handler; the framework answers 500.
Unhandled(exc) ==
    [type |-> "Unhandled", status |-> 500, body |-> exc, path |-> <<>>]

----------------------------------------------------------------------------
(* serve_static as a function of (file system, root, requested path) *)

\* Normalize without the default document for the empty path.
NormalizeDirectoriesOnly(filepath) ==
    IF EndsWithSep(filepath)
    THEN RStripSep(filepath) \o <<SEP>> \o IndexHtml
    ELSE filepath

\* Lines 41-42.
Normalize(filepath) ==
    IF filepath = <<>> \/ EndsWithSep(filepath)
    THEN IF filepath # <<>>
         THEN RStripSep(filepath) \o <<SEP>> \o IndexHtml
         ELSE IndexHtml
    ELSE filepath

\* Lines 47-53: the response that ends the request, or NoResponse together
\* with the resolved file_path.
SecurityCheck(F, root, file_path) ==
    LET r == Resolve(F, file_path)
        rs == Resolve(F, root)
    IN IF r.exc # "none" \/ rs.exc # "none"
       THEN [response |-> HTMLResponse("Forbidden", 403), file_path |-> file_path]
       ELSE IF ~StartsWith(PathStr(r.path), PathStr(rs.path))
       THEN [response |-> HTMLResponse("Forbidden", 403), file_path |-> r.path]
       ELSE [response |-> NoResponse, file_path |-> r.path]

\* Lines 56-59.
ExistsCheck(F, file_path) ==
    LET f == IsFile(F, file_path)
    IN IF f = "OSError" THEN Unhandled("OSError")
       ELSE IF f = "no" THEN HTMLResponse("Not Found", 404)
       ELSE FileResponse(file_path)

\* The whole handler, run alone.
ServeStatic(F, root, requestedPath) ==
    LET c == SecurityCheck(F, root, TrueDiv(root, Normalize(requestedPath)))
    IN IF c.response # NoResponse THEN c.response
       ELSE ExistsCheck(F, c.file_path)

----------------------------------------------------------------------------
(* The server: requests in flight, one per worker *)

VARIABLES fs, STATIC_DIR, pc, route, req, query, filepath, file_path, response, prev

vars == <<fs, STATIC_DIR, pc, route, req, query, filepath, file_path, response, prev>>

globals == <<fs, STATIC_DIR>>

StaticRoute == "/static/{filepath:path}"
RootRoute == "/"
InfoRoute == "/info"

\* Line 33, with __file__ = /app/mcp_server.py.
StaticDirInit == TrueDiv(<<App>>, Static)

InitProcs(P) ==
    /\ fs \in Layouts
    /\ STATIC_DIR = StaticDirInit
    /\ pc = [p \in P |-> "idle"]
    /\ route = [p \in P |-> ""]
    /\ req = [p \in P |-> <<>>]
    /\ query = [p \in P |-> ""]
    /\ filepath = [p \in P |-> Unset]
    /\ file_path = [p \in P |-> Unset]
    /\ response = [p \in P |-> NoResponse]
    /\ prev = [p \in P |-> Unset]

Init == InitProcs({1})

InitConc == InitProcs(1..NumProcs)

\* The router hands a GET of /static/<r> to serve_static (line 35).
GetStatic(p, r) ==
    /\ pc[p] = "idle"
    /\ pc' = [pc EXCEPT ![p] = "serve_static"]
    /\ route' = [route EXCEPT ![p] = StaticRoute]
    /\ req' = [req EXCEPT ![p] = r]
    /\ UNCHANGED <<globals, query, filepath, file_path, response, prev>>

\* Lines 38-42.
ServeStaticNormalize(p) ==
    /\ pc[p] = "serve_static"
    /\ filepath' = [filepath EXCEPT ![p] = Val(Normalize(req[p]))]
    /\ pc' = [pc EXCEPT ![p] = "join"]
    /\ UNCHANGED <<globals, route, req, query, file_path, response, prev>>

\* ServeStaticJoin storing the joined path in the module-level STATIC_DIR.
ServeStaticJoinIntoGlobal(p) ==
    /\ pc[p] = "join"
    /\ file_path' = [file_path EXCEPT ![p] = Val(TrueDiv(STATIC_DIR, filepath[p].v))]
    /\ STATIC_DIR' = TrueDiv(STATIC_DIR, filepath[p].v)
    /\ pc' = [pc EXCEPT ![p] = "security"]
    /\ UNCHANGED <<fs, route, req, query, filepath, response, prev>>

\* Line 44.
ServeStaticJoin(p) ==
    /\ pc[p] = "join"
    /\ file_path' = [file_path EXCEPT ![p] = Val(TrueDiv(STATIC_DIR, filepath[p].v))]
    /\ pc' = [pc EXCEPT ![p] = "security"]
    /\ UNCHANGED <<globals, route, req, query, filepath, response, prev>>

\* ServeStaticSecurity keeping the resolved root in the module-level STATIC_DIR.
ServeStaticSecurityCachingRoot(p) ==
    /\ pc[p] = "security"
    /\ LET c == SecurityCheck(fs, STATIC_DIR, file_path[p].v)
       IN /\ file_path' = [file_path EXCEPT ![p] = Val(c.file_path)]
          /\ response' = [response EXCEPT ![p] = c.response]
          /\ pc' = [pc EXCEPT ![p] = IF c.response = NoResponse THEN "exists" ELSE "done"]
    /\ STATIC_DIR' = Resolve(fs, STATIC_DIR).path
    /\ UNCHANGED <<fs, route, req, query, filepath, prev>>

\* Lines 46-53.
ServeStaticSecurity(p) ==
    /\ pc[p] = "security"
    /\ LET c == SecurityCheck(fs, STATIC_DIR, file_path[p].v)
       IN /\ file_path' = [file_path EXCEPT ![p] = Val(c.file_path)]
          /\ response' = [response EXCEPT ![p] = c.response]
          /\ pc' = [pc EXCEPT ![p] = IF c.response = NoResponse THEN "exists" ELSE "done"]
    /\ UNCHANGED <<globals, route, req, query, filepath, prev>>

\* Lines 55-59.
ServeStaticExists(p) ==
    /\ pc[p] = "exists"
    /\ response' = [response EXCEPT ![p] = ExistsCheck(fs, file_path[p].v)]
    /\ pc' = [pc EXCEPT ![p] = "done"]
    /\ UNCHANGED <<globals, route, req, query, filepath, file_path, prev>>

\* The router hands a GET of /?<q> to root_redirect (line 62).
GetRoot(p, q) ==
    /\ pc[p] = "idle"
    /\ pc' = [pc EXCEPT ![p] = "root_redirect"]
    /\ route' = [route EXCEPT ![p] = RootRoute]
    /\ query' = [query EXCEPT ![p] = q]
    /\ UNCHANGED <<globals, req, filepath, file_path, response, prev>>

\* RootRedirect without status_code, which leaves RedirectResponse's 307.
RootRedirectDefaultStatus(p) ==
    /\ pc[p] = "root_redirect"
    /\ response' = [response EXCEPT ![p] = RedirectResponse("/static/", 307)]
    /\ pc' = [pc EXCEPT ![p] = "done"]
    /\ UNCHANGED <<globals, route, req, query, filepath, file_path, prev>>

\* Lines 63-65.
RootRedirect(p) ==
    /\ pc[p] = "root_redirect"
    /\ response' = [response EXCEPT ![p] = RedirectResponse("/static/", 302)]
    /\ pc' = [pc EXCEPT ![p] = "done"]
    /\ UNCHANGED <<globals, route, req, query, filepath, file_path, prev>>

\* The router hands a GET of /info to show_info (line 27).
GetInfo(p) ==
    /\ pc[p] = "idle"
    /\ pc' = [pc EXCEPT ![p] = "show_info"]
    /\ route' = [route EXCEPT ![p] = InfoRoute]
    /\ UNCHANGED <<globals, req, query, filepath, file_path, response, prev>>

\* Lines 28-29.
ShowInfo(p) ==
    /\ pc[p] = "show_info"
    /\ response' = [response EXCEPT ![p] = PlainTextResponse("Health Ok!")]
    /\ pc' = [pc EXCEPT ![p] = "done"]
    /\ UNCHANGED <<globals, route, req, query, filepath, file_path, prev>>

\* The response is sent; the handler's frame and its locals are gone.
Deliver(p) ==
    /\ pc[p] = "done"
    /\ pc' = [pc EXCEPT ![p] = "idle"]
    /\ route' = [route EXCEPT ![p] = ""]
    /\ req' = [req EXCEPT ![p] = <<>>]
    /\ query' = [query EXCEPT ![p] = ""]
    /\ filepath' = [filepath EXCEPT ![p] = Unset]
    /\ file_path' = [file_path EXCEPT ![p] = Unset]
    /\ response' = [response EXCEPT ![p] = NoResponse]
    /\ prev' = [prev EXCEPT ![p] = Unset]
    /\ UNCHANGED globals

\* The client repeats its /static request; prev remembers the answer it got.
Repeat(p) ==
    /\ pc[p] = "done"
    /\ route[p] = StaticRoute
    /\ prev' = [prev EXCEPT ![p] = Val(response[p])]
    /\ pc' = [pc EXCEPT ![p] = "serve_static"]
    /\ filepath' = [filepath EXCEPT ![p] = Unset]
    /\ file_path' = [file_path EXCEPT ![p] = Unset]
    /\ response' = [response EXCEPT ![p] = NoResponse]
    /\ UNCHANGED <<globals, route, req, query>>

Handle(p) ==
    \/ ServeStaticNormalize(p)
    \/ ServeStaticJoin(p)
    \/ ServeStaticSecurity(p)
    \/ ServeStaticExists(p)
    \/ RootRedirect(p)
    \/ ShowInfo(p)
    \/ Deliver(p)
    \/ Repeat(p)

Next ==
    \E p \in DOMAIN pc :
        \/ \E r \in Requests : GetStatic(p, r)
        \/ \E q \in Queries : GetRoot(p, q)
        \/ GetInfo(p)
        \/ Handle(p)

NextConc ==
    \E p \in DOMAIN pc :
        \/ \E r \in ConcRequests : GetStatic(p, r)
        \/ \E q \in Queries : GetRoot(p, q)
        \/ GetInfo(p)
        \/ Handle(p)

Spec == Init /\ [][Next]_vars

SpecConc == InitConc /\ [][NextConc]_vars

----------------------------------------------------------------------------
(* Vocabulary of the properties *)

Forbidden == HTMLResponse("Forbidden", 403)
NotFound == HTMLResponse("Not Found", 404)

\* path is root or lies below it, segment by segment.
IsWithin(root, path) ==
    /\ Len(root) <= Len(path)
    /\ SubSeq(path, 1, Len(root)) = root

\* A /static request of worker p has been answered.
Answered(p) == pc[p] = "done" /\ route[p] = StaticRoute

\* The canonical asset root.
CanonRoot == Resolve(fs, STATIC_DIR)

\* The candidate of request r, canonicalized.
CanonCandidate(r) == Resolve(fs, TrueDiv(STATIC_DIR, Normalize(r)))

\* The path <root>/<r> written out and read back as a path.
UnderRoot(r) == ParseParts(PathStr(STATIC_DIR) \o <<SEP>> \o r)

HasTraversal(r) == \E i \in 1..Len(SplitSep(r)) : SplitSep(r)[i] = DotDot

----------------------------------------------------------------------------
(* Properties *)

\* C1: whenever serve_static answers with a file, the canonical path of the
\* file it serves is the canonical asset root or a descendant of it by path
\* segments; nothing outside the root is ever served.
C1_NoLeakOutsideRoot ==
    \A p \in DOMAIN pc :
        (Answered(p) /\ response[p].type = "FileResponse")
        => /\ CanonRoot.exc = "none"
           /\ IsWithin(CanonRoot.path, Resolve(fs, response[p].path).path)

\* C2: a request whose ".." segments take the canonicalized candidate out of
\* the asset root is answered Forbidden, whatever exists at that place.
C2_TraversalForbidden ==
    \A p \in DOMAIN pc :
        (/\ Answered(p)
         /\ HasTraversal(req[p])
         /\ CanonRoot.exc = "none"
         /\ CanonCandidate(req[p]).exc = "none"
         /\ ~IsWithin(CanonRoot.path, CanonCandidate(req[p]).path))
        => response[p] = Forbidden

\* C3: for a request that ends with a separator, the candidate handed to
\* resolve() is <root>/<request without its trailing separators>/index.html.
C3_DirectoryCandidate ==
    \A p \in DOMAIN pc :
        (pc[p] = "security" /\ EndsWithSep(req[p]))
        => file_path[p].v = UnderRoot(RStripSep(req[p]) \o <<SEP>> \o IndexHtml)

C5_InsideButNoFile ==
    \A p \in DOMAIN pc :
        Answered(p)
        => /\ (/\ CanonRoot.exc = "none"
               /\ CanonCandidate(req[p]).exc = "none"
               /\ IsWithin(CanonRoot.path, CanonCandidate(req[p]).path)
               /\ IsFile(fs, CanonCandidate(req[p]).path) # "yes")
              => response[p] = NotFound
           /\ (req[p] # <<>> /\ ~EndsWithSep(req[p]))
              => filepath[p].v = req[p]

\* C6: a request that does not end in a separator and names an existing
\* regular file under the asset root is answered Found with the canonical
\* form of <root>/<request>.
C6_FoundCanonical ==
    \A p \in DOMAIN pc :
        (/\ Answered(p)
         /\ req[p] # <<>>
         /\ ~EndsWithSep(req[p])
         /\ CanonRoot.exc = "none"
         /\ Resolve(fs, UnderRoot(req[p])).exc = "none"
         /\ IsWithin(CanonRoot.path, Resolve(fs, UnderRoot(req[p])).path)
         /\ IsFile(fs, Resolve(fs, UnderRoot(req[p])).path) = "yes")
        => response[p] = FileResponse(Resolve(fs, UnderRoot(req[p])).path)

\* C7: every call of serve_static ends in Found, Forbidden or NotFound; a
\* failed canonicalization gives Forbidden and no error leaves the handler.
C7_ThreeOutcomes ==
    \A p \in DOMAIN pc :
        Answered(p)
        => /\ response[p].type \in {"FileResponse", "HTMLResponse"}
           /\ response[p].type = "HTMLResponse" => response[p] \in {Forbidden, NotFound}
           /\ CanonCandidate(req[p]).exc # "none" => response[p] = Forbidden

\* C8: the same request sent again over the unchanged file system gets the
\* same answer, whatever other requests were handled in between, and two
\* workers answering the same request give the same answer.
C8_Idempotent ==
    \A p \in DOMAIN pc :
        Answered(p)
        => /\ prev[p].set => response[p] = prev[p].v
           /\ \A q \in DOMAIN pc :
                  (Answered(q) /\ req[q] = req[p]) => response[q] = response[p]

\* C8 witness: a repeated request has been answered with a file again while
\* another worker is in the middle of a request.
C8_Witness ==
    \E p, q \in DOMAIN pc :
        /\ Answered(p)
        /\ prev[p].set
        /\ response[p].type = "FileResponse"
        /\ pc[q] \in {"join", "security", "exists"}

\* C9: under every interleaving of concurrent requests each answer is the one
\* the request gets when run alone, and no step writes STATIC_DIR or the file
\* system.
C9_Independent ==
    /\ [](/\ STATIC_DIR = StaticDirInit
          /\ \A p \in DOMAIN pc :
                 Answered(p) => response[p] = ServeStatic(fs, StaticDirInit, req[p]))
    /\ [][fs' = fs /\ STATIC_DIR' = STATIC_DIR]_vars

\* C9 witness: two requests in flight at once, one answered with a file
\* while the other has been refused.
C9_Witness ==
    \E p, q \in DOMAIN pc :
        /\ Answered(p) /\ response[p].type = "FileResponse"
        /\ Answered(q) /\ response[q] = Forbidden

\* C10: a GET of / is answered with a 302 redirect to /static/ whatever the
\* query, the file system and the earlier requests, and the locals of
\* serve_static are never set on its behalf.
C10_RootRedirect ==
    \A p \in DOMAIN pc :
        route[p] = RootRoute
        => /\ ~filepath[p].set
           /\ ~file_path[p].set
           /\ pc[p] = "done" => response[p] = RedirectResponse("/static/", 302)

\* C10 witness: a GET of / with a query string has been answered.
C10_Witness ==
    \E p \in DOMAIN pc :
        /\ route[p] = RootRoute
        /\ pc[p] = "done"
        /\ query[p] # ""
        /\ response[p].status = 302

====
